---- MODULE Spec2Model ----
(***************************************************************************)
(* One chat-server instance of GoChat: the WebSocket Hub (register /       *)
(* unregister event loop, Redis subscriber, per-recipient fan-out          *)
(* goroutines) and the per-connection reader and writer goroutines of      *)
(* internal/server/websocket.go, with the membership and message use cases *)
(* of internal/biz that the reader calls.                                  *)
(*                                                                         *)
(* A Client is a *Client pointer.  The register and unregister channels    *)
(* carry that pointer, so the Hub reads client.RoomID when it handles the  *)
(* signal, not when the signal was sent; every such read is a separate     *)
(* step of the Hub so that the reader's writes can fall in between.        *)
(***************************************************************************)
EXTENDS Integers, Sequences, FiniteSets, Bags, TLC

\* ------------------------------------------------------------------ bounds
SendCap == 1   \* capacity of Client.Send (256 in the source)
ChanCap == 2   \* capacity of Hub.register / Hub.unregister (100 in the source)
MaxOps  == 2   \* number of inputs of the environment in one behaviour
MaxMsgs == 2   \* number of Messages the store accepts in one behaviour

Clients == {1, 2}          \* the connections that were upgraded
Talkers == {1}             \* the connections whose peer sends frames or hangs up
Users   == {1, 2}          \* user ids the token validator knows
RoomIds == {1, 2}          \* rooms that exist in the room directory
JoinIds == {0} \cup RoomIds \* room_id values of a join_room frame
Tokens  == {0} \cup Users \cup {9}  \* 0: token missing, 9: token invalid
RestPairs == {<<1, 1>>}    \* memberships the REST endpoints change
Senders == {1}             \* users whose messages another instance accepts
Contents == {0, 1}         \* content of send_message: 0 empty, 1 non-empty

\* ------------------------------------------------------------------ frames
Fr(t, w, r, i) == [type |-> t, who |-> w, room |-> r, id |-> i]
ErrAuthFirst  == Fr("error_auth_first", 0, 0, 0)
ErrJoinFirst  == Fr("error_join_first", 0, 0, 0)
ErrAuthFailed == Fr("error_auth_failed", 0, 0, 0)
ErrJoin       == Fr("error_join", 0, 0, 0)
ErrSend       == Fr("error_send", 0, 0, 0)
SuccessAuth   == Fr("success_auth", 0, 0, 0)
SuccessLeft   == Fr("success_left", 0, 0, 0)
Pong          == Fr("pong", 0, 0, 0)
RoomJoined(r)    == Fr("room_joined", 0, r, 0)
UserJoined(u, r) == Fr("user_joined", u, r, 0)
UserLeft(u, r)   == Fr("user_left", u, r, 0)
NewMessage(e)    == Fr("new_message", e.user, e.room, e.id)

VARIABLES
    ID,          \* Client.ID
    RoomID,      \* Client.RoomID
    Send,        \* Client.Send: the buffered frames
    SendClosed,  \* Client.Send has been closed
    connOpen,    \* Client.Conn has not been closed by this server
    rpc,         \* position of the reader goroutine
    rarg,        \* roomID argument of the joinRoom in progress
    rold,        \* Client.RoomID when that joinRoom was entered
    wpc,         \* position of the writer goroutine
    rooms,       \* Hub.rooms
    register,    \* Hub.register
    unregister,  \* Hub.unregister
    hpc,         \* position of Hub.Run
    hcl,         \* the client Hub.Run took from a channel
    hrem,        \* remainingClients of the unregister case
    bcast,       \* user_joined goroutines that still have to range over their map
    sends,       \* per-recipient goroutines that still have to call safeSend
    bus,         \* payloads the Redis subscription has still to deliver
    spc,         \* position of subscribeToRedis
    sref,        \* the map subscribeToRedis ranges over
    sev,         \* the event subscribeToRedis is handling
    store,       \* the messages table
    members,     \* the room_members table
    dropped,     \* Hub.droppedMessages
    crashed,     \* "no", or the unrecovered panic or fatal error the process died of
    ops,         \* inputs of the environment so far
    phase,       \* history: how far each reader is in auth; join; leave / join
    rchk,        \* history: the membership queries of a reader's latest frame
    switched,    \* history: rooms a client left by an acknowledged join_room
    lateFor,     \* history: events published on a room after a client left it
    got,         \* history: the new_message events enqueued to a client, in order
    missed,      \* history: <<client, event id>> of fan-out frames dropped on a
                 \* full queue (id 0: a user_joined or user_left frame)
    unpub,       \* history: ids of the messages stored by a send_message whose
                 \* publish failed
    wire,        \* the frames the writer has put on the socket of a client
    main,        \* position of func main: "run" in app.Run, or "exited"
    objects,     \* the objects of the upload bucket
    resp,        \* the response of the latest API request
    calls,       \* the repository calls of the latest ChatUseCase.SendMessage
    queued,      \* history: the frames that were enqueued on c.Send, in order
    req,         \* the API request that is handled, if one is
    reads,       \* the message_reads table: <<message id, user id>>
    accounts,    \* the users table of the user service: email and username
    out,         \* the message data of the latest response or new_message frame
    gauge,       \* the websocket_connections gauge
    sigRoom      \* history: Client.RoomID when a signal was put on a channel:
                 \* one entry for each signal of register and of unregister,
                 \* and that of the register signal Hub.Run is handling

vars == <<ID, RoomID, Send, SendClosed, connOpen, rpc, rarg, rold, wpc, rooms,
          register, unregister, hpc, hcl, hrem, bcast, sends, bus, spc, sref,
          sev, store, members, dropped, crashed, ops, phase, rchk, switched,
          lateFor, got, missed, unpub, wire, main, objects, resp, calls,
          queued, req, reads, accounts, out, gauge, sigRoom>>

connVars == <<ID, RoomID, Send, SendClosed, connOpen, rpc, rarg, rold, wpc>>
hubVars  == <<rooms, register, unregister, hpc, hcl, hrem>>
taskVars == <<bcast, sends>>
subVars  == <<bus, spc, sref, sev>>
dataVars == <<store, members>>
histVars == <<phase, rchk, switched, lateFor, got, missed, unpub, sigRoom>>
apiVars  == <<objects, resp, calls, req, reads, accounts, out>>
sideVars == <<wire, main, apiVars, gauge>>

\* the process runs: no panic or fatal error has ended it and main has not
\* returned
Alive == crashed = "no" /\ main = "run"

\* ----------------------------------------------------------------- helpers
Members(r) == IF r \in DOMAIN rooms THEN rooms[r] ELSE {}

NoRef == [room |-> 0, live |-> FALSE, old |-> {}]

\* a reference to the map stored under key r (nil when the key is absent)
RefOf(r) == [room |-> r, live |-> r \in DOMAIN rooms, old |-> {}]

\* the clients a goroutine sees when it ranges over a referenced map
Deref(ref) == IF ref.live THEN Members(ref.room) ELSE ref.old

\* delete(h.rooms, r): a goroutine that holds the deleted map keeps the old
\* object with the clients it had; Hub.Run reaches maps through h.rooms only,
\* so the old object never changes again
Unlink(ref, r) ==
    IF ref.room = r /\ ref.live
    THEN [room |-> r, live |-> FALSE, old |-> Members(r)]
    ELSE ref

RECURSIVE CopiesOf(_, _)
CopiesOf(S, B) ==
    IF S = {} THEN 0
    ELSE LET b == CHOOSE y \in S : TRUE IN B[b] + CopiesOf(S \ {b}, B)

\* the goroutines of bag B after delete(h.rooms, r)
UnlinkAll(B, r) ==
    LET moved(b) == [b EXCEPT !.ref = Unlink(b.ref, r)]
    IN  [x \in {moved(b) : b \in DOMAIN B} |->
            CopiesOf({b \in DOMAIN B : moved(b) = x}, B)]

\* one more element x in bag B
Plus(B, x) == B (+) SetToBag({x})

RECURSIVE BagOfSet(_, _)
BagOfSet(S, f) ==
    IF S = {} THEN EmptyBag
    ELSE LET x == CHOOSE y \in S : TRUE
         IN  SetToBag({[to |-> x, frame |-> f]}) (+) BagOfSet(S \ {x}, f)

\* Client.safeSend: the queue after the call
SafeSend(q, closed, f) ==
    IF closed THEN q                       \* panic on closed channel, recovered
    ELSE IF Len(q) < SendCap THEN Append(q, f)
    ELSE q                                 \* default branch: dropped

\* Client.safeSend: the default branch was taken
SafeSendDrops(q, closed) == ~closed /\ Len(q) >= SendCap

\* TokenValidator: the user id a token validates to, 0 on error
ValidateToken(t) == IF t \in Users THEN t ELSE 0

\* RoomRepo.IsUserInRoom
IsUserInRoom(r, u) == <<u, r>> \in members

\* RoomUseCase.GetRoom as called by joinRoom: nil error
GetRoomOk(u, r) == u > 0 /\ IsUserInRoom(r, u) /\ r \in RoomIds

\* A talker starts fresh ("new"), authenticated as user c ("authed"), or
\* authenticated and registered in room 1 ("joined"), with every frame of the
\* handshake already written to the socket; a listener is fresh or in room 1
Stages == {st \in [Clients -> {"new", "authed", "joined"}] :
              \A c \in Clients \ Talkers : st[c] # "authed"}

InRoom1(st) == {c \in Clients : st[c] = "joined"}

NoReq == [op |-> "none"]

\* the clients are at the stages st; the channels of the Hub and the number
\* of inputs given so far are left open
Started(st) ==
    /\ ID = [c \in Clients |-> IF st[c] = "new" THEN 0 ELSE c]
    /\ RoomID = [c \in Clients |-> IF st[c] = "joined" THEN 1 ELSE 0]
    /\ Send = [c \in Clients |-> <<>>]
    /\ SendClosed = [c \in Clients |-> FALSE]
    /\ connOpen = [c \in Clients |-> TRUE]
    /\ rpc = [c \in Clients |-> "idle"]
    /\ rarg = [c \in Clients |-> 0]
    /\ rold = [c \in Clients |-> 0]
    /\ wpc = [c \in Clients |-> "run"]
    /\ rooms = IF InRoom1(st) = {} THEN [r \in {} |-> {}]
               ELSE [r \in {1} |-> InRoom1(st)]
    /\ hpc = "idle"
    /\ hcl = 0
    /\ hrem = {}
    /\ bcast = EmptyBag
    /\ sends = EmptyBag
    /\ bus = <<>>
    /\ spc = "idle"
    /\ sref = NoRef
    /\ sev = [id |-> 0, room |-> 0, user |-> 0]
    /\ store = <<>>
    /\ dropped = 0
    /\ Alive
    /\ phase = [c \in Clients |-> st[c]]
    /\ rchk = [c \in Clients |-> {}]
    /\ switched = [c \in Clients |-> {}]
    /\ lateFor = [c \in Clients |-> {}]
    /\ got = [c \in Clients |-> <<>>]
    /\ missed = {}
    /\ unpub = {}
    /\ wire = [c \in Clients |-> <<>>]
    /\ main = "run"
    /\ objects = {}
    /\ resp = "none"
    /\ calls = <<>>
    /\ queued = [c \in Clients |-> <<>>]
    /\ reads = {}
    /\ accounts = {}
    /\ out = {}
    /\ gauge = Cardinality(InRoom1(st))

\* the state in which the clients are at the stages st and no signal waits
Boot(st) ==
    /\ Started(st)
    /\ ops = 0
    /\ register = <<>>
    /\ unregister = <<>>
    /\ sigRoom = [reg |-> <<>>, unreg |-> <<>>, cur |-> 0]

\* the room_members table at the start: every user is in every room but
\* user 2 in room 2
Seeded == (Users \X RoomIds) \ {<<2, 2>>}

Init == \E st \in Stages : Boot(st) /\ members = Seeded /\ req = NoReq

\* ------------------------------------------------------------------ reader
\* c.safeSend(f) called by a goroutine: the queue and the drop counter
Reply(c, f) ==
    /\ Send' = [Send EXCEPT ![c] = SafeSend(Send[c], SendClosed[c], f)]
    /\ dropped' = dropped + (IF SafeSendDrops(Send[c], SendClosed[c]) THEN 1 ELSE 0)
    /\ queued' = [queued EXCEPT ![c] =
                    IF Send'[c] # Send[c] THEN Append(@, f) ELSE @]

\* the environment gives one more input
Spend ==
    /\ ops < MaxOps
    /\ ops' = ops + 1

\* c.Conn.ReadJSON returns a frame
Take(c) ==
    /\ Alive
    /\ c \in Talkers
    /\ rpc[c] = "idle"
    /\ connOpen[c]
    /\ Spend

\* the reader's deferred function: unregister if in a room, close the socket
Deferred(c) ==
    /\ IF ID[c] # 0 /\ RoomID[c] # 0
       THEN /\ Len(unregister) < ChanCap
            /\ unregister' = Append(unregister, c)
            /\ sigRoom' = [sigRoom EXCEPT !.unreg = Append(@, RoomID[c])]
       ELSE UNCHANGED <<unregister, sigRoom>>
    /\ connOpen' = [connOpen EXCEPT ![c] = FALSE]
    /\ rpc' = [rpc EXCEPT ![c] = "exited"]

\* an authentication that accepts every token that is present
AuthOkAny(t) == t # 0

\* authenticateWithUserClient returns nil
AuthOk(t) == t # 0 /\ ValidateToken(t) # 0

\* case "auth": authenticateWithUserClient, then sendSuccess, or sendError and
\* return into the deferred function
ReadAuth(c, t) ==
    /\ Take(c)
    /\ IF AuthOk(t)
       THEN /\ ID' = [ID EXCEPT ![c] = ValidateToken(t)]
            /\ Reply(c, SuccessAuth)
            /\ phase' = [phase EXCEPT ![c] = IF @ = "new" THEN "authed" ELSE "other"]
            /\ UNCHANGED <<rpc, connOpen, unregister, sigRoom>>
       ELSE /\ Reply(c, ErrAuthFailed)
            /\ Deferred(c)
            /\ phase' = [phase EXCEPT ![c] = "other"]
            /\ UNCHANGED ID
    /\ UNCHANGED <<RoomID, SendClosed, rarg, rold, wpc, rooms, register, hpc,
                   hcl, hrem, taskVars, subVars, dataVars, crashed, rchk,
                   switched, lateFor, got, missed, unpub, sideVars>>

\* the join_room case without its check of c.ID
JoinGateOpen(c) == TRUE

\* case "join_room": the frame passes the check of c.ID
JoinGate(c) == ID[c] # 0

\* joinRoom with a GetRoom that looks the room up without asking for membership
JoinAllowedAny(u, r) == r > 0 /\ u > 0 /\ r \in RoomIds

\* joinRoom: roomID > 0 and RoomService.GetRoom returns no error
JoinAllowed(u, r) == r > 0 /\ GetRoomOk(u, r)

\* case "join_room": the auth gate, then joinRoom up to and including
\* if c.RoomID != 0 { c.Hub.unregister <- c }
ReadJoin(c, r) ==
    /\ Take(c)
    /\ rchk' = [rchk EXCEPT ![c] =
                  IF ID[c] > 0 /\ r > 0
                  THEN {<<ID[c], r, IsUserInRoom(r, ID[c])>>}
                  ELSE {}]
    /\ IF ~JoinGate(c)
       THEN /\ Reply(c, ErrAuthFirst)
            /\ phase' = [phase EXCEPT ![c] = "other"]
            /\ UNCHANGED <<rpc, rarg, rold, unregister, sigRoom>>
       ELSE IF ~JoinAllowed(ID[c], r)
       THEN /\ Reply(c, ErrJoin)
            /\ phase' = [phase EXCEPT ![c] = "other"]
            /\ UNCHANGED <<rpc, rarg, rold, unregister, sigRoom>>
       ELSE /\ rarg' = [rarg EXCEPT ![c] = r]
            /\ rold' = [rold EXCEPT ![c] = RoomID[c]]
            /\ IF RoomID[c] # 0
               THEN /\ Len(unregister) < ChanCap
                    /\ unregister' = Append(unregister, c)
                    /\ sigRoom' = [sigRoom EXCEPT !.unreg = Append(@, RoomID[c])]
               ELSE UNCHANGED <<unregister, sigRoom>>
            /\ rpc' = [rpc EXCEPT ![c] = "join_set"]
            /\ phase' = [phase EXCEPT ![c] =
                          IF @ = "authed" /\ RoomID[c] = 0 THEN "joined"
                          ELSE IF @ = "joined" /\ RoomID[c] = r THEN "rejoined"
                          ELSE "other"]
            /\ UNCHANGED <<Send, dropped, queued>>
    /\ UNCHANGED <<ID, RoomID, SendClosed, connOpen, wpc, rooms, register,
                   hpc, hcl, hrem, taskVars, subVars, dataVars, crashed,
                   switched, lateFor, got, missed, unpub, sideVars>>

\* joinRoom: c.RoomID = roomID
JoinSet(c) ==
    /\ Alive
    /\ rpc[c] = "join_set"
    /\ RoomID' = [RoomID EXCEPT ![c] = rarg[c]]
    /\ rpc' = [rpc EXCEPT ![c] = "join_reg"]
    /\ switched' = [switched EXCEPT ![c] = @ \ {rarg[c]}]
    /\ UNCHANGED <<ID, Send, queued, SendClosed, connOpen, rarg, rold, wpc, hubVars,
                   taskVars, subVars, dataVars, dropped, crashed, ops, phase,
                   rchk, lateFor, got, missed, unpub, sigRoom, sideVars>>

\* joinRoom: c.Hub.register <- c; c.safeSend(room_joined); return nil
JoinReg(c) ==
    /\ Alive
    /\ rpc[c] = "join_reg"
    /\ Len(register) < ChanCap
    /\ register' = Append(register, c)
    /\ sigRoom' = [sigRoom EXCEPT !.reg = Append(@, RoomID[c])]
    /\ Reply(c, RoomJoined(rarg[c]))
    /\ rpc' = [rpc EXCEPT ![c] = "idle"]
    /\ switched' = [switched EXCEPT ![c] =
           IF Send'[c] # Send[c] /\ rold[c] \notin {0, rarg[c]}
           THEN @ \cup {rold[c]} ELSE @]
    /\ rarg' = [rarg EXCEPT ![c] = 0]
    /\ rold' = [rold EXCEPT ![c] = 0]
    /\ UNCHANGED <<ID, RoomID, SendClosed, connOpen, wpc, rooms, unregister,
                   hpc, hcl, hrem, taskVars, subVars, dataVars, crashed, ops,
                   phase, rchk, lateFor, got, missed, unpub, sideVars>>

\* an event is published on room:r: the clients that had left r before
Late(r) == [c \in Clients |->
              IF r \in switched[c] THEN lateFor[c] \cup {Len(store) + 1}
              ELSE lateFor[c]]

\* case "send_message": the frame passes the check of c.ID and c.RoomID
SendGate(c) == ID[c] # 0 /\ RoomID[c] # 0

\* ChatUseCase.SendMessage: the membership check lets the message through
SendAllowed(u, r) == IsUserInRoom(r, u)

\* an event that does not name its sender
RedisMessageNoUser(m) == [id |-> m.id, room |-> m.room, user |-> 0]

\* Client.sendMessage: the RedisMessage built from the message the service
\* returned
RedisMessage(m) == [id |-> m.id, room |-> m.room, user |-> m.user]

\* a message table that takes every row
StoreFailsNever(storeOk) == FALSE

\* ChatRepo.SendMessage returns an error: the insert failed, or the table
\* holds MaxMsgs rows
StoreFails(storeOk) == ~storeOk \/ Len(store) >= MaxMsgs

\* case "send_message": the gate, Client.sendMessage, ChatService.SendMessage,
\* ChatUseCase.SendMessage and the Redis publish
ReadSend(c, k, storeOk, pubOk) ==
    /\ Take(c)
    /\ phase' = [phase EXCEPT ![c] = "other"]
    /\ rchk' = [rchk EXCEPT ![c] =
                  IF SendGate(c) /\ k # 0
                  THEN {<<ID[c], RoomID[c], IsUserInRoom(RoomID[c], ID[c])>>}
                  ELSE {}]
    /\ IF ~SendGate(c)
       THEN /\ Reply(c, ErrJoinFirst)
            /\ UNCHANGED <<store, bus, lateFor>>
       ELSE IF k = 0 \/ ~SendAllowed(ID[c], RoomID[c])
                     \/ StoreFails(storeOk)
       THEN /\ Reply(c, ErrSend)
            /\ UNCHANGED <<store, bus, lateFor>>
       ELSE LET m == [id |-> Len(store) + 1, room |-> RoomID[c], user |-> ID[c]]
            IN  /\ store' = Append(store, m)
                /\ IF pubOk
                   THEN /\ bus' = Append(bus, RedisMessage(m))
                        /\ lateFor' = Late(RoomID[c])
                        /\ UNCHANGED <<Send, dropped, queued>>
                   ELSE /\ Reply(c, ErrSend)
                        /\ UNCHANGED <<bus, lateFor>>
    /\ unpub' = IF SendGate(c) /\ store' # store /\ bus' = bus
                THEN unpub \cup {Len(store')} ELSE unpub
    /\ UNCHANGED <<ID, RoomID, SendClosed, connOpen, rpc, rarg, rold, wpc,
                   hubVars, taskVars, spc, sref, sev, members, crashed,
                   switched, got, missed, sigRoom, sideVars>>

\* case "leave_room": if c.RoomID != 0 { c.Hub.unregister <- c ...
ReadLeave(c) ==
    /\ Take(c)
    /\ IF RoomID[c] # 0
       THEN /\ Len(unregister) < ChanCap
            /\ unregister' = Append(unregister, c)
            /\ sigRoom' = [sigRoom EXCEPT !.unreg = Append(@, RoomID[c])]
            /\ rpc' = [rpc EXCEPT ![c] = "leave_set"]
       ELSE UNCHANGED <<unregister, rpc, sigRoom>>
    /\ phase' = [phase EXCEPT ![c] = IF @ = "joined" THEN "left" ELSE "other"]
    /\ UNCHANGED <<ID, RoomID, Send, queued, SendClosed, connOpen, rarg, rold, wpc,
                   rooms, register, hpc, hcl, hrem, taskVars, subVars,
                   dataVars, dropped, crashed, rchk, switched, lateFor, got, missed, unpub, sideVars>>

\* leave_room: ... c.RoomID = 0; c.sendSuccess("Left room") }
LeaveSet(c) ==
    /\ Alive
    /\ rpc[c] = "leave_set"
    /\ RoomID' = [RoomID EXCEPT ![c] = 0]
    /\ Reply(c, SuccessLeft)
    /\ rpc' = [rpc EXCEPT ![c] = "idle"]
    /\ UNCHANGED <<ID, SendClosed, connOpen, rarg, rold, wpc, hubVars,
                   taskVars, subVars, dataVars, crashed, ops, histVars, sideVars>>

\* case "ping"
ReadPing(c) ==
    /\ Take(c)
    /\ Reply(c, Pong)
    /\ phase' = [phase EXCEPT ![c] = "other"]
    /\ UNCHANGED <<ID, RoomID, SendClosed, connOpen, rpc, rarg, rold, wpc,
                   hubVars, taskVars, subVars, dataVars, crashed, rchk,
                   switched, lateFor, got, missed, unpub, sigRoom, sideVars>>

\* the peer closes the socket or stops answering the pings: c.Conn.ReadJSON
\* returns an error and the reader leaves through its deferred function
PeerClose(c) ==
    /\ Alive
    /\ c \in Talkers
    /\ rpc[c] = "idle"
    /\ connOpen[c]
    /\ Spend
    /\ Deferred(c)
    /\ UNCHANGED <<ID, RoomID, Send, queued, SendClosed, rarg, rold, wpc, rooms,
                   register, hpc, hcl, hrem, taskVars, subVars, dataVars,
                   dropped, crashed, phase, rchk, switched, lateFor, got, missed, unpub, sideVars>>

\* c.Conn.ReadJSON returns an error because the writer closed the socket:
\* the reader leaves through its deferred function
ReadError(c) ==
    /\ Alive
    /\ rpc[c] = "idle"
    /\ ~connOpen[c]
    /\ Deferred(c)
    /\ UNCHANGED <<ID, RoomID, Send, queued, SendClosed, rarg, rold, wpc, rooms,
                   register, hpc, hcl, hrem, taskVars, subVars, dataVars,
                   dropped, crashed, ops, phase, rchk, switched, lateFor, got, missed, unpub, sideVars>>

\* ------------------------------------------------------------------ writer
\* a writer that writes every frame it takes twice
WriterWriteTwice(c) ==
    /\ Alive
    /\ wpc[c] = "run"
    /\ Send[c] # <<>>
    /\ Send' = [Send EXCEPT ![c] = Tail(Send[c])]
    /\ wire' = [wire EXCEPT ![c] =
                  IF connOpen[c] THEN Append(Append(@, Head(Send[c])), Head(Send[c]))
                  ELSE @]
    /\ UNCHANGED <<ID, RoomID, SendClosed, connOpen, rpc, rarg, rold, wpc,
                   hubVars, taskVars, subVars, dataVars, dropped, crashed, ops,
                   histVars, main, apiVars, gauge, queued>>

\* writePump: a frame is taken from c.Send and handed to c.Conn.WriteMessage,
\* which fails on a socket that has been closed; the error is discarded and
\* the loop goes on
WriterWrite(c) ==
    /\ Alive
    /\ wpc[c] = "run"
    /\ Send[c] # <<>>
    /\ Send' = [Send EXCEPT ![c] = Tail(Send[c])]
    /\ wire' = [wire EXCEPT ![c] =
                  IF connOpen[c] THEN Append(@, Head(Send[c])) ELSE @]
    /\ UNCHANGED <<ID, RoomID, SendClosed, connOpen, rpc, rarg, rold, wpc,
                   hubVars, taskVars, subVars, dataVars, dropped, crashed, ops,
                   histVars, main, apiVars, gauge, queued>>

\* writePump: the receive reports a closed, drained channel: close frame, return
WriterClosed(c) ==
    /\ Alive
    /\ wpc[c] = "run"
    /\ Send[c] = <<>>
    /\ SendClosed[c]
    /\ wpc' = [wpc EXCEPT ![c] = "done"]
    /\ connOpen' = [connOpen EXCEPT ![c] = FALSE]
    /\ UNCHANGED <<ID, RoomID, Send, queued, SendClosed, rpc, rarg, rold, hubVars,
                   taskVars, subVars, dataVars, dropped, crashed, ops, histVars, sideVars>>

\* a writer that discards the error of the ping as it does that of a frame
WriterPingIgnored(c) ==
    /\ Alive
    /\ wpc[c] = "run"
    /\ ~connOpen[c]
    /\ UNCHANGED vars

\* writePump: the ticker fires and the ping cannot be written
WriterPingFail(c) ==
    /\ Alive
    /\ wpc[c] = "run"
    /\ ~connOpen[c]
    /\ wpc' = [wpc EXCEPT ![c] = "done"]
    /\ UNCHANGED <<ID, RoomID, Send, queued, SendClosed, connOpen, rpc, rarg, rold,
                   hubVars, taskVars, subVars, dataVars, dropped, crashed, ops,
                   histVars, sideVars>>

\* --------------------------------------------------------------------- hub
\* Hub.Run, case client := <-h.register: lock, create the room map if missing
HubRecvRegister ==
    /\ Alive
    /\ hpc = "idle"
    /\ register # <<>>
    /\ LET c == Head(register)
           r == RoomID[c]
       IN  /\ hcl' = c
           /\ rooms' = IF r \in DOMAIN rooms THEN rooms
                       ELSE [k \in DOMAIN rooms \cup {r} |->
                               IF k = r THEN {} ELSE rooms[k]]
    /\ register' = Tail(register)
    /\ sigRoom' = [sigRoom EXCEPT !.reg = Tail(@), !.cur = Head(sigRoom.reg)]
    /\ hpc' = "reg_insert"
    /\ UNCHANGED <<connVars, queued, unregister, hrem, taskVars, subVars, dataVars,
                   dropped, crashed, ops, phase, rchk, switched, lateFor, got, missed, unpub, sideVars>>

\* the room a register stores the client under
RegisterRoom(c) == RoomID[c]

\* Hub.Run, register: h.rooms[client.RoomID][client] = true, unlock
HubRegInsert ==
    /\ Alive
    /\ hpc = "reg_insert"
    /\ LET r == RegisterRoom(hcl)
       IN  IF r \in DOMAIN rooms
           THEN /\ rooms' = [rooms EXCEPT ![r] = @ \cup {hcl}]
                /\ gauge' = gauge + 1     \* metrics.IncWebSocketConnection()
                /\ hpc' = "reg_notify"
                /\ UNCHANGED crashed
           ELSE /\ crashed' = "nil_map"  \* assignment to entry in nil map
                /\ UNCHANGED <<rooms, hpc, gauge>>
    /\ UNCHANGED <<connVars, queued, register, unregister, hcl, hrem, taskVars,
                   subVars, dataVars, dropped, ops, histVars, wire, main, apiVars>>

\* Hub.Run, register: go func(roomClients, message)(h.rooms[client.RoomID], ...)
HubRegNotify ==
    /\ Alive
    /\ hpc = "reg_notify"
    /\ LET r == RoomID[hcl]
       IN  bcast' = IF r \in DOMAIN rooms
                    THEN Plus(bcast, [ref |-> RefOf(r), frame |-> UserJoined(ID[hcl], r)])
                    ELSE bcast          \* range over a nil map: no recipient
    /\ hpc' = "idle"
    /\ hcl' = 0
    /\ UNCHANGED <<connVars, queued, rooms, register, unregister, hrem, sends, subVars,
                   dataVars, dropped, crashed, ops, histVars, sideVars>>

\* the room an unregister looks the client up in
UnregisterRoom(c) == RoomID[c]

\* Hub.Run, case client := <-h.unregister: delete(clients, client); close(client.Send)
HubRecvUnregister ==
    /\ Alive
    /\ hpc = "idle"
    /\ unregister # <<>>
    /\ unregister' = Tail(unregister)
    /\ sigRoom' = [sigRoom EXCEPT !.unreg = Tail(@)]
    /\ LET c == Head(unregister)
           r == UnregisterRoom(c)
       IN  IF r \in DOMAIN rooms /\ c \in rooms[r]
           THEN /\ rooms' = [rooms EXCEPT ![r] = @ \ {c}]
                /\ IF SendClosed[c]
                   THEN /\ crashed' = "double_close"  \* close of closed channel
                        /\ UNCHANGED <<SendClosed, hpc, hcl, hrem, gauge>>
                   ELSE /\ SendClosed' = [SendClosed EXCEPT ![c] = TRUE]
                        /\ gauge' = gauge - 1  \* metrics.DecWebSocketConnection()
                        /\ hcl' = c
                        /\ hrem' = rooms[r] \ {c}
                        /\ hpc' = IF rooms[r] = {c} THEN "unreg_delete"
                                  ELSE "unreg_notify"
                        /\ UNCHANGED crashed
           ELSE UNCHANGED <<rooms, SendClosed, crashed, hpc, hcl, hrem, gauge>>
    /\ UNCHANGED <<ID, RoomID, Send, queued, connOpen, rpc, rarg, rold, wpc, register,
                   taskVars, subVars, dataVars, dropped, ops, phase, rchk, switched, lateFor, got, missed, unpub, wire, main, apiVars>>

\* Hub.Run, unregister: delete(h.rooms, client.RoomID), unlock
HubUnregDelete ==
    /\ Alive
    /\ hpc = "unreg_delete"
    /\ LET r == RoomID[hcl]
       IN  /\ rooms' = [k \in DOMAIN rooms \ {r} |-> rooms[k]]
           /\ bcast' = UnlinkAll(bcast, r)
           /\ sref' = Unlink(sref, r)
    /\ hpc' = "idle"
    /\ hcl' = 0
    /\ hrem' = {}
    /\ UNCHANGED <<connVars, queued, register, unregister, sends, bus, spc, sev,
                   dataVars, dropped, crashed, ops, histVars, sideVars>>

\* a loop that sends user_left to the remaining clients itself: it waits
\* until the queue of each of them has room
HubUnregNotifyWaits ==
    /\ Alive
    /\ hpc = "unreg_notify"
    /\ \A c \in hrem : Len(Send[c]) < SendCap
    /\ sends' = sends (+) BagOfSet(hrem, UserLeft(ID[hcl], RoomID[hcl]))
    /\ hpc' = "idle"
    /\ hcl' = 0
    /\ hrem' = {}
    /\ UNCHANGED <<connVars, queued, rooms, register, unregister, bcast, subVars,
                   dataVars, dropped, crashed, ops, histVars, sideVars>>

\* Hub.Run, unregister: the user_left broadcast over the copy remainingClients
HubUnregNotify ==
    /\ Alive
    /\ hpc = "unreg_notify"
    /\ sends' = sends (+) BagOfSet(hrem, UserLeft(ID[hcl], RoomID[hcl]))
    /\ hpc' = "idle"
    /\ hcl' = 0
    /\ hrem' = {}
    /\ UNCHANGED <<connVars, queued, rooms, register, unregister, bcast, subVars,
                   dataVars, dropped, crashed, ops, histVars, sideVars>>

\* a goroutine holds the live map of room r and ranges over it without the
\* lock: subscribeToRedis after its lookup, or a user_joined goroutine
Ranging(r) ==
    \/ spc = "loop" /\ sref.live /\ sref.room = r
    \/ \E b \in DOMAIN bcast : b.ref.live /\ b.ref.room = r

\* Hub.Run writes a map (h.rooms[r][client] = true, delete(clients, client))
\* while a goroutine ranges over it: the runtime may stop the process with
\* "concurrent map iteration and map write"
HubMapFault ==
    /\ Alive
    /\ \/ /\ hpc = "reg_insert"
          /\ RegisterRoom(hcl) \in DOMAIN rooms
          /\ Ranging(RegisterRoom(hcl))
       \/ /\ hpc = "idle"
          /\ unregister # <<>>
          /\ LET c == Head(unregister)
                 r == UnregisterRoom(c)
             IN  r \in DOMAIN rooms /\ c \in rooms[r] /\ Ranging(r)
    /\ crashed' = "map_race"
    /\ UNCHANGED <<connVars, queued, hubVars, taskVars, subVars, dataVars, dropped,
                   ops, histVars, sideVars>>

\* ----------------------------------------------------------------- fan-out
\* the user_joined goroutine ranges over the room's map and starts one
\* goroutine per client it finds
BcastRun(b) ==
    /\ Alive
    /\ BagIn(b, bcast)
    /\ bcast' = bcast (-) SetToBag({b})
    /\ sends' = sends (+) BagOfSet(Deref(b.ref), b.frame)
    /\ UNCHANGED <<connVars, queued, hubVars, subVars, dataVars, dropped, crashed, ops,
                   histVars, sideVars>>

\* a per-recipient goroutine calls safeSend
SendRun(s) ==
    /\ Alive
    /\ BagIn(s, sends)
    /\ sends' = sends (-) SetToBag({s})
    /\ Reply(s.to, s.frame)
    /\ got' = [got EXCEPT ![s.to] =
                 IF s.frame.type = "new_message" /\ Send'[s.to] # Send[s.to]
                 THEN Append(@, s.frame) ELSE @]
    /\ missed' = IF SafeSendDrops(Send[s.to], SendClosed[s.to])
                 THEN missed \cup {<<s.to, s.frame.id>>} ELSE missed
    /\ UNCHANGED <<ID, RoomID, SendClosed, connOpen, rpc, rarg, rold, wpc,
                   hubVars, bcast, subVars, dataVars, crashed, ops, phase, rchk,
                   switched, lateFor, unpub, sigRoom, sideVars>>

\* -------------------------------------------------------------- subscriber
NoEvent == [id |-> 0, room |-> 0, user |-> 0]

\* subscribeToRedis: take a payload, clients := h.rooms[room] under RLock,
\* skip the event when len(clients) == 0
SubRecv ==
    /\ Alive
    /\ spc = "idle"
    /\ bus # <<>>
    /\ bus' = Tail(bus)
    /\ LET e == Head(bus)
       IN  IF Members(e.room) = {}
           THEN UNCHANGED <<spc, sref, sev>>
           ELSE /\ spc' = "loop"
                /\ sref' = RefOf(e.room)
                /\ sev' = e
    /\ UNCHANGED <<connVars, queued, hubVars, taskVars, dataVars, dropped, crashed,
                   ops, histVars, sideVars>>

\* a fan-out that leaves out the clients whose queue is full
FanOutSetRoomy(ref) == {c \in Deref(ref) : Len(Send[c]) < SendCap}

\* the recipients of an event that subscribeToRedis ranges over
FanOutSet(ref) == Deref(ref)

\* a fan-out loop that starts two goroutines for every client
SubLoopTwice ==
    /\ Alive
    /\ spc = "loop"
    /\ sends' = sends (+) BagOfSet(FanOutSet(sref), NewMessage(sev))
                      (+) BagOfSet(FanOutSet(sref), NewMessage(sev))
    /\ spc' = "idle"
    /\ sref' = NoRef
    /\ sev' = NoEvent
    /\ UNCHANGED <<connVars, queued, hubVars, bcast, bus, dataVars, dropped, crashed,
                   ops, histVars, sideVars>>

\* subscribeToRedis: for client := range clients { go client.safeSend(msgBytes) }
SubLoop ==
    /\ Alive
    /\ spc = "loop"
    /\ sends' = sends (+) BagOfSet(FanOutSet(sref), NewMessage(sev))
    /\ spc' = "idle"
    /\ sref' = NoRef
    /\ sev' = NoEvent
    /\ UNCHANGED <<connVars, queued, hubVars, bcast, bus, dataVars, dropped, crashed,
                   ops, histVars, sideVars>>

\* ------------------------------------------------------------- environment
\* another instance accepts a send_message of member u of room r and
\* publishes it on room:r
ExternalPublish(u, r) ==
    /\ Alive
    /\ Spend
    /\ Len(store) < MaxMsgs
    /\ IsUserInRoom(r, u)
    /\ LET m == [id |-> Len(store) + 1, room |-> r, user |-> u]
       IN  /\ store' = Append(store, m)
           /\ bus' = Append(bus, m)
    /\ lateFor' = Late(r)
    /\ UNCHANGED <<connVars, queued, hubVars, taskVars, spc, sref, sev, members,
                   dropped, crashed, phase, rchk, switched, got, missed, unpub,
                   sigRoom, sideVars>>

\* RoomUseCase.JoinRoom through the REST endpoint (every room is public)
RestJoin(u, r) ==
    /\ Alive
    /\ Spend
    /\ <<u, r>> \in RestPairs
    /\ r \in RoomIds
    /\ ~IsUserInRoom(r, u)
    /\ members' = members \cup {<<u, r>>}
    /\ UNCHANGED <<connVars, queued, hubVars, taskVars, subVars, store, dropped,
                   crashed, histVars, sideVars>>

\* RoomUseCase.LeaveRoom through the REST endpoint
RestLeave(u, r) ==
    /\ Alive
    /\ Spend
    /\ <<u, r>> \in RestPairs
    /\ IsUserInRoom(r, u)
    /\ members' = members \ {<<u, r>>}
    /\ UNCHANGED <<connVars, queued, hubVars, taskVars, subVars, store, dropped,
                   crashed, histVars, sideVars>>

Next ==
    \/ \E c \in Clients, t \in Tokens : ReadAuth(c, t)
    \/ \E c \in Clients, r \in JoinIds : ReadJoin(c, r)
    \/ \E c \in Clients, k \in Contents, so \in BOOLEAN, po \in BOOLEAN :
           ReadSend(c, k, so, po)
    \/ \E c \in Clients : ReadLeave(c)
    \/ \E c \in Clients : ReadPing(c)
    \/ \E c \in Clients : JoinSet(c)
    \/ \E c \in Clients : JoinReg(c)
    \/ \E c \in Clients : LeaveSet(c)
    \/ \E c \in Clients : PeerClose(c)
    \/ \E c \in Clients : ReadError(c)
    \/ \E c \in Clients : WriterWrite(c)
    \/ \E c \in Clients : WriterClosed(c)
    \/ \E c \in Clients : WriterPingFail(c)
    \/ HubRecvRegister
    \/ HubRegInsert
    \/ HubRegNotify
    \/ HubRecvUnregister
    \/ HubUnregDelete
    \/ HubUnregNotify
    \/ HubMapFault
    \/ \E b \in DOMAIN bcast : BcastRun(b)
    \/ \E s \in DOMAIN sends : SendRun(s)
    \/ SubRecv
    \/ SubLoop
    \/ \E u \in Senders, r \in RoomIds : ExternalPublish(u, r)
    \/ \E u \in Users, r \in RoomIds : RestJoin(u, r)
    \/ \E u \in Users, r \in RoomIds : RestLeave(u, r)

Spec == Init /\ [][Next]_vars

\* the steps of the server's own goroutines: the Go scheduler runs every
\* goroutine that can run, a client need not send anything
Internal ==
    \/ \E c \in Clients : JoinSet(c) \/ JoinReg(c) \/ LeaveSet(c) \/ ReadError(c)
    \/ \E c \in Clients : WriterWrite(c) \/ WriterClosed(c) \/ WriterPingFail(c)
    \/ HubRecvRegister \/ HubRegInsert \/ HubRegNotify
    \/ HubRecvUnregister \/ HubUnregDelete \/ HubUnregNotify
    \/ \E b \in DOMAIN bcast : BcastRun(b)
    \/ \E s \in DOMAIN sends : SendRun(s)
    \/ SubRecv \/ SubLoop

FairSpec == Spec /\ WF_vars(Internal)

\* ---------------------------------------------------------------- shutdown
\* func main: app.Run returns on SIGINT or SIGTERM, the deferred functions
\* close the user client, the database and the Redis client, and main
\* returns, which ends the process with the goroutines it still has
MainReturn ==
    /\ Alive
    /\ main' = "exited"
    /\ UNCHANGED <<connVars, queued, hubVars, taskVars, subVars, dataVars,
                   dropped, crashed, ops, histVars, wire, apiVars, gauge>>

StopNext == Next \/ MainReturn

StopSpec == Init /\ [][StopNext]_vars

\* --------------------------------------------------------------------- API
\* storage.MaxFileSize
MaxFileSize == 10 * 1024 * 1024

\* storage.AllowedFileTypes
AllowedFileTypes ==
    {"image/jpeg", "image/png", "image/gif", "image/webp", "application/pdf",
     "application/msword",
     "application/vnd.openxmlformats-officedocument.wordprocessingml.document",
     "application/vnd.ms-excel",
     "application/vnd.openxmlformats-officedocument.spreadsheetml.sheet",
     "application/zip", "text/plain", "application/json"}

\* the requests of POST /upload that are tried: the method, the Authorization
\* header (scheme "" when the header is missing, token 0 when it is empty),
\* whether the form has a field "file", and the size and the Content-Type of
\* that part
Methods == {"POST", "GET", "OPTIONS"}
Schemes == {"", "Bearer", "Basic"}
Sizes   == {1, MaxFileSize, MaxFileSize + 1}
Mimes   == {"", "image/png", "application/pdf", "text/html",
            "application/octet-stream"}
Uploads == [op : {"upload"}, method : Methods, scheme : Schemes,
            token : Tokens, file : BOOLEAN, size : Sizes, mime : Mimes]

\* an authentication that takes the token of any scheme
AuthenticateUploadAnyScheme(q) ==
    IF q.scheme = "" THEN 0 ELSE ValidateToken(q.token)

\* authenticateUpload: the user id, 0 on error
AuthenticateUpload(q) ==
    IF q.scheme # "Bearer" THEN 0 ELSE ValidateToken(q.token)

\* the handler of HandleUpload; formOk: ParseMultipartForm returns nil,
\* putOk: MinioStorage.UploadFile returns nil
HandleUpload(q, formOk, putOk) ==
    /\ Alive
    /\ req = q /\ q.op = "upload" /\ resp = "none"
    /\ LET mimeType == IF q.mime = "" THEN "application/octet-stream" ELSE q.mime
           status ==
               IF q.method = "OPTIONS" THEN "http_204"
               ELSE IF q.method # "POST" THEN "http_405"
               ELSE IF AuthenticateUpload(q) = 0 THEN "http_401"
               ELSE IF ~formOk THEN "http_400_form"
               ELSE IF ~q.file THEN "http_400_no_file"
               ELSE IF q.size > MaxFileSize THEN "http_400_too_large"
               ELSE IF mimeType \notin AllowedFileTypes THEN "http_400_type"
               ELSE IF ~putOk THEN "http_500"
               ELSE "http_200"
       IN  /\ resp' = status
           /\ objects' = IF status = "http_200"
                          THEN objects \cup {[n |-> Cardinality(objects) + 1,
                                              size |-> q.size, mime |-> mimeType]}
                          ELSE objects
    /\ UNCHANGED <<connVars, queued, hubVars, taskVars, subVars, dataVars,
                   dropped, crashed, ops, histVars, wire, main, gauge, calls, req,
                   reads, accounts, out>>

\* the longest content validateSendMessageRequest accepts
MaxContentLen == 4000

\* the SendMessageRequests that are tried: content is the length of the
\* content, url and name tell whether file_url and file_name are non-empty
ReqRooms == {0 - 1, 0, 1, 2}
ReqTypes == {"", "text", "image", "file", "video"}
ReqLens  == {0, 1, MaxContentLen, MaxContentLen + 1}
Requests == [op : {"send"}, user : Users, room : ReqRooms, type : ReqTypes,
             content : ReqLens, url : BOOLEAN, name : BOOLEAN]

\* a validation that does not look at the length of the content
ValidateNoLength(q) ==
    LET type == IF q.type = "" THEN "text" ELSE q.type
    IN  IF q.room <= 0 THEN "err_invalid_room"
        ELSE IF type \notin {"text", "image", "file"} THEN "err_invalid_type"
        ELSE IF type \in {"image", "file"} /\ ~q.url THEN "err_file_url"
        ELSE IF type \in {"image", "file"} /\ ~q.name THEN "err_file_name"
        ELSE IF type = "text" /\ q.content = 0 THEN "err_empty"
        ELSE "ok"

\* ChatUseCase.validateSendMessageRequest: "ok" or the error
ValidateSendMessageRequest(q) ==
    LET type == IF q.type = "" THEN "text" ELSE q.type
    IN  IF q.room <= 0 THEN "err_invalid_room"
        ELSE IF type \notin {"text", "image", "file"} THEN "err_invalid_type"
        ELSE IF type \in {"image", "file"} /\ ~q.url THEN "err_file_url"
        ELSE IF type \in {"image", "file"} /\ ~q.name THEN "err_file_name"
        ELSE IF type = "text" /\ q.content = 0 THEN "err_empty"
        ELSE IF q.content > MaxContentLen THEN "err_too_long"
        ELSE "ok"

\* ChatUseCase.SendMessage(ctx, q.user, q) as the HTTP and gRPC endpoints of
\* ChatService call it; userOk: UserRepo.GetUserByID returns nil, storeOk:
\* the insert succeeds.  calls lists the repository calls it makes
UcSendMessage(q, userOk, storeOk) ==
    /\ Alive
    /\ req = q /\ q.op = "send" /\ resp = "none"
    /\ LET v == ValidateSendMessageRequest(q)
           member == IsUserInRoom(q.room, q.user)
           status == IF v # "ok" THEN v
                     ELSE IF ~member THEN "err_cannot_send"
                     ELSE IF ~userOk THEN "err_user_not_found"
                     ELSE IF StoreFails(storeOk) THEN "err_store"
                     ELSE "ok"
       IN  /\ resp' = status
           /\ calls' = IF v # "ok" THEN <<>>
                       ELSE IF ~member THEN <<"IsUserInRoom">>
                       ELSE IF ~userOk THEN <<"IsUserInRoom", "GetUserByID">>
                       ELSE <<"IsUserInRoom", "GetUserByID", "SendMessage">>
           /\ store' = IF status = "ok"
                        THEN Append(store, [id |-> Len(store) + 1,
                                            room |-> q.room, user |-> q.user])
                        ELSE store
    /\ UNCHANGED <<connVars, queued, hubVars, taskVars, subVars, members,
                   dropped, crashed, ops, histVars, wire, main, gauge, objects, req,
                   reads, accounts, out>>

\* one request arrives at a server on which no connection is open
ApiInit ==
    /\ Boot([c \in Clients |-> "new"])
    /\ members = Seeded
    /\ req \in Uploads \cup Requests

ApiNext ==
    \/ \E fo \in BOOLEAN, po \in BOOLEAN : HandleUpload(req, fo, po)
    \/ \E uo \in BOOLEAN, so \in BOOLEAN : UcSendMessage(req, uo, so)

ApiSpec == ApiInit /\ [][ApiNext]_vars

\* ------------------------------------------------------------------ claims
\* the rooms whose map holds client c
RoomsOf(c) == {r \in DOMAIN rooms : c \in rooms[r]}

\* Hub.Run waits in its select with both channels empty
HubIdle == register = <<>> /\ unregister = <<>> /\ hpc = "idle"

\* C1: under any interleaving of a reader with the Hub, every connection is
\* a member of at most one set of Hub.rooms
C1_AtMostOneRoom == \A c \in Clients : Cardinality(RoomsOf(c)) <= 1

\* C2: once a connection's reader has exited and the Hub has processed every
\* pending signal, the connection is in no set of Hub.rooms
C2_GoneAfterExit ==
    \A c \in Clients :
        (rpc[c] = "exited" /\ HubIdle /\ crashed = "no") => RoomsOf(c) = {}

\* C3: the Hub closes a connection's Send at most once: a second
\* close(client.Send), which panics, never happens, also not for a connection
\* that joined a second room after an earlier unregister and then disconnects
C3_ClosedOnce == crashed # "double_close"

\* what a refused frame of an unauthenticated connection c leaves alone: no
\* membership query, no message stored or published, no signal to the Hub,
\* c.ID and c.RoomID still 0, the socket open and the reader in its loop
Untouched(c) ==
    /\ rchk'[c] = {}
    /\ store' = store /\ bus' = bus
    /\ register' = register /\ unregister' = unregister
    /\ ID'[c] = 0 /\ RoomID[c] = 0 /\ RoomID'[c] = 0
    /\ connOpen'[c] /\ rpc'[c] = "idle"

\* C4 as stated: while c.ID = 0, every join_room and every send_message frame
\* puts an error frame on c.Send, and nothing else happens
C4_AlwaysAnswered ==
    [][\A c \in Clients : ID[c] = 0 =>
          /\ \A r \in JoinIds : ReadJoin(c, r) =>
                Send'[c] = Append(Send[c], ErrAuthFirst) /\ Untouched(c)
          /\ \A k \in Contents, so \in BOOLEAN, po \in BOOLEAN :
                ReadSend(c, k, so, po) =>
                Send'[c] = Append(Send[c], ErrJoinFirst) /\ Untouched(c)]_vars

\* the outcome of safeSend(f) on the open queue of c: f is enqueued when the
\* queue has room, otherwise f is dropped and the drop is counted
AnsweredOrDropped(c, f) ==
    IF Len(Send[c]) < SendCap
    THEN Send'[c] = Append(Send[c], f) /\ dropped' = dropped
    ELSE Send'[c] = Send[c] /\ dropped' = dropped + 1

\* C4, amended: while c.ID = 0, every join_room and every send_message frame
\* is refused with an error frame that is enqueued on c.Send when the queue has
\* room and dropped and counted when it is full; in both cases no membership
\* query is made, nothing is stored or published, no signal goes to the Hub,
\* c.ID and c.RoomID stay 0 and the socket stays open
C4_GateRefuses ==
    [][\A c \in Clients : ID[c] = 0 =>
          /\ \A r \in JoinIds : ReadJoin(c, r) =>
                AnsweredOrDropped(c, ErrAuthFirst) /\ Untouched(c)
          /\ \A k \in Contents, so \in BOOLEAN, po \in BOOLEAN :
                ReadSend(c, k, so, po) =>
                AnsweredOrDropped(c, ErrJoinFirst) /\ Untouched(c)]_vars

\* an unauthenticated connection got the error frame for a join_room and had
\* a later frame's answer dropped
C4_Refused ==
    \E c \in Clients :
        ID[c] = 0 /\ Send[c] = <<ErrAuthFirst>> /\ dropped = 1 /\ ops = 2

C6_InOrder ==
    \A c \in Clients :
        ops = Len(store) =>
            \A i, j \in DOMAIN got[c] :
                (i < j /\ got[c][i].room = got[c][j].room) =>
                    got[c][i].id < got[c][j].id

\* C7: when the Hub inserts a connection into the set of a room, the
\* connection is in the set of no other room
C7_RemovedBeforeInserted ==
    [][(HubRegInsert /\ crashed' = "no") =>
          RoomsOf(hcl) \subseteq {RegisterRoom(hcl)}]_vars

\* C8: no new_message of an event that was published on a room after the
\* room_joined of the connection's switch away from that room was enqueued
\* is enqueued to the connection
C8_NoLateMessage ==
    \A c \in Clients : \A i \in DOMAIN got[c] : got[c][i].id \notin lateFor[c]

\* the connections that only listen, and Hub.rooms when it holds just them
Listening == {c \in Clients \ Talkers : phase[c] = "joined"}

RoomsOfListening ==
    [r \in {RoomID[c] : c \in Listening} |-> {c \in Listening : RoomID[c] = r}]

\* C9: after join_room(R); leave_room of an authenticated connection that
\* was in no room, and after the Hub processed the signals, Hub.rooms is what
\* it was before the join
C9_JoinLeaveRestores ==
    \A c \in Talkers :
        (phase[c] = "left" /\ rpc[c] = "idle" /\ HubIdle /\ crashed = "no") =>
            rooms = RoomsOfListening

\* C10: after a member sent join_room(R) twice and the Hub processed the
\* signals, the connection is in rooms[R] only, c.RoomID is R and c.Send is
\* open
C10_RejoinIsJoin ==
    \A c \in Talkers :
        (phase[c] = "rejoined" /\ rpc[c] = "idle" /\ HubIdle /\ crashed = "no") =>
            RoomsOf(c) = {RoomID[c]} /\ ~SendClosed[c]

\* C11: after leave_room of a connection registered in a room, and after the
\* Hub processed the signal, c.RoomID is 0 and the connection is still open
\* with a writer that serves an open c.Send, ready for a later join_room
C11_LeaveKeepsOpen ==
    \A c \in Talkers :
        (phase[c] = "left" /\ rpc[c] = "idle" /\ HubIdle /\ crashed = "no") =>
            RoomID[c] = 0 /\ ~SendClosed[c] /\ connOpen[c] /\ wpc[c] = "run"

\* C12: safeSend never blocks: a per-recipient goroutine can always run, on
\* a full open queue it leaves the queue as it is and counts one drop, and
\* the fan-out of an event starts one safeSend for every client
\* subscribeToRedis ranges over, whatever the state of their queues
C12_NeverBlocks ==
    [][/\ \A s \in DOMAIN sends : crashed = "no" => ENABLED SendRun(s)
       /\ \A s \in DOMAIN sends :
             (SendRun(s) /\ ~SendClosed[s.to] /\ Len(Send[s.to]) >= SendCap) =>
                 Send'[s.to] = Send[s.to] /\ dropped' = dropped + 1
       /\ SubLoop =>
             \A c \in Deref(sref) :
                 LET task == [to |-> c, frame |-> NewMessage(sev)]
                 IN  CopiesIn(task, sends') = CopiesIn(task, sends) + 1]_vars

\* one event was dropped on the full queue of one member of its room and
\* enqueued to another member
C12_DroppedForOne ==
    \E c \in Clients : \E d \in Clients \ {c} :
        \E i \in DOMAIN got[d] :
            <<c, got[d][i].id>> \in missed /\ got[c] = <<>>

\* C13: a connection whose fan-out frame was dropped on its full queue is
\* eventually soft-evicted: its socket is closed and it is in no set of
\* Hub.rooms
C13_DropEvicts ==
    \A c \in Clients :
        (\E e \in 0..MaxMsgs : <<c, e>> \in missed)
            ~> (~connOpen[c] /\ RoomsOf(c) = {})

\* the safeSend calls for new_message(e) to client c: made and still to make
Deliveries(c, e) ==
    Cardinality({i \in DOMAIN got[c] : got[c][i].id = e})
  + CopiesOf({s \in DOMAIN sends :
                 s.to = c /\ s.frame.type = "new_message" /\ s.frame.id = e},
             sends)

\* C14: for every event received from the bus and every connection,
\* new_message of the event is enqueued to the connection at most once
C14_AtMostOnce ==
    \A c \in Clients : \A e \in 1..Len(store) : Deliveries(c, e) <= 1

\* one event has been enqueued to two connections, once each, and no
\* safeSend is left to run
C14_DeliveredToBoth ==
    /\ sends = EmptyBag
    /\ \E e \in 1..Len(store) : \A c \in Clients : Deliveries(c, e) = 1

\* C15: under fair scheduling, every connection that is in the set of room
\* R when subscribeToRedis handles an event of R, and whose queue is open and
\* has room when its safeSend runs, eventually has new_message of the event
\* enqueued
C15_FanOutReaches ==
    \A c \in Clients : \A e \in 1..MaxMsgs :
        (spc = "loop" /\ sev.id = e /\ c \in Deref(sref))
            ~> \/ \E i \in DOMAIN got[c] : got[c][i].id = e
               \/ <<c, e>> \in missed
               \/ SendClosed[c]

\* C16: when Hub.Run inserts a client into the set of a room or deletes one
\* from it, no fan-out goroutine is ranging over that set itself: every
\* fan-out works on a copy taken under the lock
C16_FanOutOnCopies ==
    [][/\ (HubRegInsert /\ rooms' # rooms) => ~Ranging(RegisterRoom(hcl))
       /\ (HubRecvUnregister /\ rooms' # rooms) =>
             ~Ranging(UnregisterRoom(Head(unregister)))]_vars

\* C17: no sequence of frames and disconnects ends in an unrecovered panic
\* or fatal error of Hub.Run, subscribeToRedis or a per-recipient goroutine:
\* the process stays alive
C17_NoPanic == crashed = "no"

\* C18: whenever Hub.Run does not hold the lock, no key of Hub.rooms maps to
\* an empty set
C18_NoEmptyRoom ==
    (crashed = "no" /\ hpc \notin {"reg_insert", "unreg_delete"}) =>
        \A r \in DOMAIN rooms : rooms[r] # {}

\* what an auth frame with a missing or invalid token does to the reader of
\* c: the reader exits and closes the socket, c.ID is as before, and an
\* exited reader handles no further frame
ExitsUnchanged(c) ==
    rpc'[c] = "exited" /\ ~connOpen'[c] /\ ID'[c] = ID[c]

Exited ==
    \A c \in Clients :
        rpc[c] = "exited" =>
            /\ rpc'[c] = "exited" /\ ID'[c] = ID[c] /\ RoomID'[c] = RoomID[c]
            /\ rchk'[c] = rchk[c] /\ phase'[c] = phase[c]

\* C19 as stated: an auth frame whose token is missing or invalid enqueues
\* one error frame, the reader exits, the connection is not authenticated by
\* it and no later frame of it is handled
C19_ErrorThenExit ==
    [][/\ \A c \in Clients : \A t \in Tokens \ Users :
             ReadAuth(c, t) =>
                 Send'[c] = Append(Send[c], ErrAuthFailed) /\ ExitsUnchanged(c)
       /\ Exited]_vars

\* C19, amended: an auth frame whose token is missing or invalid enqueues
\* one error frame if c.Send is open and has room and discards it otherwise;
\* in both cases the reader exits, the connection is not authenticated by the
\* frame and no later frame of it is handled
C19_RefusedThenExit ==
    [][/\ \A c \in Clients : \A t \in Tokens \ Users :
             ReadAuth(c, t) =>
                 /\ IF ~SendClosed[c] /\ Len(Send[c]) < SendCap
                    THEN Send'[c] = Append(Send[c], ErrAuthFailed)
                    ELSE Send'[c] = Send[c]
                 /\ ExitsUnchanged(c)
       /\ Exited]_vars

\* the reader of a fresh connection exited on a refused auth frame whose
\* error frame is in the queue
C19_Refused ==
    \E c \in Clients :
        rpc[c] = "exited" /\ ID[c] = 0 /\ Send[c] = <<ErrAuthFailed>> /\ ops = 1

\* C20: once c.ID is set, no frame changes it: a further auth frame is
\* ignored or refused
C20_AuthOnce ==
    [][\A c \in Clients : ID[c] # 0 => ID'[c] = ID[c]]_vars

\* join_room(r) of the authenticated connection c has to fail: r is not
\* positive, no such room exists, or the user is not a member of it
JoinMustFail(c, r) ==
    ID[c] # 0 /\ (r <= 0 \/ r \notin RoomIds \/ ~IsUserInRoom(r, ID[c]))

\* what a failed join_room leaves alone: no signal goes to the Hub, c.RoomID,
\* Hub.rooms and c.ID are as before, the socket is open and the reader is back
\* in its loop
JoinLeftAlone(c) ==
    /\ register' = register /\ unregister' = unregister
    /\ RoomID' = RoomID /\ rooms' = rooms
    /\ ID'[c] = ID[c] /\ connOpen'[c] = connOpen[c] /\ rpc'[c] = "idle"

\* C21 as stated: a join_room that fails puts an error frame on c.Send, sends
\* no register or unregister signal and leaves c.RoomID, Hub.rooms and the
\* authentication as they were
C21_FailedJoinAnswered ==
    [][\A c \in Clients : \A r \in JoinIds :
          (ReadJoin(c, r) /\ JoinMustFail(c, r)) =>
              Send'[c] = Append(Send[c], ErrJoin) /\ JoinLeftAlone(c)]_vars

\* C21, amended: a join_room that fails is answered with an error frame that
\* is enqueued when c.Send is open and has room and discarded otherwise (and
\* counted as a drop when the open queue is full); in every case no register
\* or unregister signal is sent and c.RoomID, Hub.rooms and the authentication
\* are as they were
C21_FailedJoinRefused ==
    [][\A c \in Clients : \A r \in JoinIds :
          (ReadJoin(c, r) /\ JoinMustFail(c, r)) =>
              /\ IF ~SendClosed[c] /\ Len(Send[c]) < SendCap
                 THEN Send'[c] = Append(Send[c], ErrJoin) /\ dropped' = dropped
                 ELSE Send'[c] = Send[c]
              /\ (~SendClosed[c] /\ Len(Send[c]) >= SendCap) =>
                     dropped' = dropped + 1
              /\ JoinLeftAlone(c)]_vars

\* a connection registered in room 1 had a join_room refused: the error frame
\* is in its queue and it is still in the set of room 1
C21_StillInRoom ==
    \E c \in Clients :
        /\ ID[c] # 0 /\ RoomID[c] = 1 /\ RoomsOf(c) = {1}
        /\ Send[c] = <<ErrJoin>> /\ ops = 1 /\ rpc[c] = "idle"

\* send_message of c passes the gate, the validation and the membership check
SendReachesStore(c, k) ==
    SendGate(c) /\ k # 0 /\ IsUserInRoom(RoomID[c], ID[c])

\* what a send_message that failed in the store or in the publish leaves
\* alone: nothing goes on the bus, no fan-out goroutine is started, nothing is
\* enqueued to another connection, and c stays in its room with its socket
\* open and its reader in the loop
SendLeftAlone(c) ==
    /\ bus' = bus /\ sends' = sends /\ bcast' = bcast
    /\ \A d \in Clients \ {c} : Send'[d] = Send[d]
    /\ RoomID' = RoomID /\ rooms' = rooms /\ ID'[c] = ID[c]
    /\ connOpen'[c] /\ rpc'[c] = "idle"
    /\ register' = register /\ unregister' = unregister

\* no new_message of a message whose publish failed is enqueued, waits in a
\* goroutine or is on the bus
NoneOfUnpublished ==
    /\ \A c \in Clients : \A i \in DOMAIN got'[c] : got'[c][i].id \notin unpub'
    /\ \A s \in DOMAIN sends' : s.frame.id \notin unpub'
    /\ \A i \in DOMAIN bus' : bus'[i].id \notin unpub'
    /\ sev'.id \notin unpub'

\* C22 as stated: when the insert of a send_message fails, nothing is stored
\* and nothing is published; when the insert or the publish fails, an error
\* frame is put on the sender's queue, no new_message of the frame is ever
\* enqueued, and the sender stays open in its room
C22_FailedSendAnswered ==
    [][/\ \A c \in Clients, k \in Contents, so \in BOOLEAN, po \in BOOLEAN :
             (ReadSend(c, k, so, po) /\ SendReachesStore(c, k)) =>
                 /\ (~so \/ Len(store) >= MaxMsgs) =>
                        store' = store /\ bus' = bus
                 /\ (~so \/ Len(store) >= MaxMsgs \/ ~po) =>
                        /\ Send'[c] = Append(Send[c], ErrSend)
                        /\ SendLeftAlone(c)
       /\ NoneOfUnpublished]_vars

\* C22, amended: when the insert fails, nothing is stored and nothing is
\* published; when the insert or the publish fails, the error frame is
\* enqueued if the sender's queue is open and has room and discarded
\* otherwise, no new_message of the frame is ever enqueued, and the sender
\* stays open in its room
C22_FailedSendRefused ==
    [][/\ \A c \in Clients, k \in Contents, so \in BOOLEAN, po \in BOOLEAN :
             (ReadSend(c, k, so, po) /\ SendReachesStore(c, k)) =>
                 /\ (~so \/ Len(store) >= MaxMsgs) =>
                        store' = store /\ bus' = bus
                 /\ (~so \/ Len(store) >= MaxMsgs \/ ~po) =>
                        /\ IF ~SendClosed[c] /\ Len(Send[c]) < SendCap
                           THEN Send'[c] = Append(Send[c], ErrSend)
                           ELSE Send'[c] = Send[c]
                        /\ SendLeftAlone(c)
       /\ NoneOfUnpublished]_vars

\* a message was stored, its publish failed, the sender has the error frame
\* in its queue and is still registered in room 1
C22_StoredNotPublished ==
    \E c \in Clients :
        /\ unpub = {1} /\ Len(store) = 1 /\ bus = <<>>
        /\ Send[c] = <<ErrSend>> /\ RoomID[c] = 1 /\ RoomsOf(c) = {1}

\* the send_message frame of c is not answered with an error: on an open
\* queue no frame is enqueued to c and no drop is counted; on a closed queue,
\* where safeSend leaves no trace, the frame passes every check and the
\* insert and the publish succeed
NotAnsweredWithError(c, k, so, po) ==
    IF ~SendClosed[c]
    THEN Send'[c] = Send[c] /\ dropped' = dropped
    ELSE SendReachesStore(c, k) /\ so /\ Len(store) < MaxMsgs /\ po

\* C23: for every send_message that is not answered with an error, exactly
\* one row is appended to the messages table and exactly one event is
\* published, carrying the sender's c.RoomID, the id of that row and the
\* sender's c.ID; the handler starts no fan-out of its own and enqueues
\* nothing to any connection
C23_OneStoredOnePublished ==
    [][\A c \in Clients, k \in Contents, so \in BOOLEAN, po \in BOOLEAN :
          (ReadSend(c, k, so, po) /\ NotAnsweredWithError(c, k, so, po)) =>
              /\ Len(store') = Len(store) + 1
              /\ SubSeq(store', 1, Len(store)) = store
              /\ store'[Len(store')].room = RoomID[c]
              /\ store'[Len(store')].user = ID[c]
              /\ \A i \in 1..Len(store) : store[i].id # store'[Len(store')].id
              /\ Len(bus') = Len(bus) + 1
              /\ SubSeq(bus', 1, Len(bus)) = bus
              /\ bus'[Len(bus')] = [id |-> store'[Len(store')].id,
                                    room |-> RoomID[c], user |-> ID[c]]
              /\ ID[c] # 0 /\ RoomID[c] # 0
              /\ sends' = sends /\ bcast' = bcast /\ Send' = Send
              /\ got' = got]_vars

\* a registered connection sent one message: one row is stored, its event
\* waits on the bus and no goroutine has been started for it
C23_Published ==
    \E c \in Clients :
        /\ ops = 1 /\ Len(store) = 1 /\ bus = <<store[1]>>
        /\ store[1].room = RoomID[c] /\ store[1].user = ID[c]
        /\ sends = EmptyBag /\ Send[c] = <<>> /\ unpub = {}

\* sequence p is the beginning of sequence q
IsPrefix(p, q) == Len(p) <= Len(q) /\ SubSeq(q, 1, Len(p)) = p

C25_WriteErrorStops ==
    [][\A c \in Clients :
          (WriterWrite(c) /\ wire'[c] = wire[c]) =>
              wpc'[c] = "done" /\ ~connOpen'[c]]_vars

\* the writer goroutine of c is gone: writePump returned, which stops its
\* ticker and closes c.Conn, or the process has ended and with it every
\* goroutine and timer
WriterGone(c) == wpc[c] = "done" \/ crashed # "no"

\* C26: under fair scheduling, once the reader of a connection has exited,
\* its writer terminates too, also when the connection is in no room, so that
\* no unregister closes its c.Send
C26_WriterFollowsReader ==
    \A c \in Clients : rpc[c] = "exited" ~> WriterGone(c)

\* the reader of a connection that never was in a room has exited, c.Send
\* was never closed, and the writer has returned
C26_EndedWithoutRoom ==
    \E c \in Clients :
        /\ rpc[c] = "exited" /\ wpc[c] = "done" /\ crashed = "no"
        /\ phase[c] \in {"new", "authed"} /\ RoomID[c] = 0 /\ ~SendClosed[c]

\* C27: when Hub.Run has deleted a connection from the set of room R and
\* other connections remain in it, it starts one safeSend of user_left,
\* naming the connection's user and R, for each remaining connection and none
\* for the leaving one; when the connection was the last of its room, it
\* starts none
C27_UserLeftToRemaining ==
    [][/\ HubUnregNotify =>
             \E r \in DOMAIN rooms :
                 /\ rooms[r] = hrem /\ hcl \notin hrem
                 /\ sends' = sends (+) BagOfSet(hrem, UserLeft(ID[hcl], r))
       /\ HubUnregDelete => sends' = sends]_vars

\* C28: when the shutdown has returned, Hub.Run has left its loop and every
\* reader and writer goroutine has exited (the subscriber, which the server
\* never cancels, is left out of the formula)
C28_ShutdownWaits ==
    main = "exited" =>
        /\ hpc = "exited"
        /\ \A c \in Clients : rpc[c] = "exited" /\ wpc[c] = "done"

\* the three checks of POST /upload, in terms of the request: a bearer token
\* that validates, a size of at most 10 MiB, a Content-Type of the allow-list
UploadChecksPass(q) ==
    /\ q.scheme = "Bearer" /\ q.token \in Users
    /\ q.size <= 10 * 1024 * 1024
    /\ q.mime \in AllowedFileTypes

UploadErrors == {"http_401", "http_400_form", "http_400_no_file",
                 "http_400_too_large", "http_400_type"}

\* C29: POST /upload stores an object only when the token validated, the
\* size is at most 10 MiB and the MIME type is in the allow-list, all in that
\* request; a request that fails one of the three gets an error response and
\* stores nothing
C29_UploadChecked ==
    [][\A fo \in BOOLEAN, po \in BOOLEAN :
          HandleUpload(req, fo, po) =>
              /\ objects' # objects =>
                     /\ req.method = "POST" /\ UploadChecksPass(req)
                     /\ Cardinality(objects') = Cardinality(objects) + 1
                     /\ resp' = "http_200"
              /\ (req.method = "POST" /\ ~UploadChecksPass(req)) =>
                     objects' = objects /\ resp' \in UploadErrors]_vars

\* a file of exactly 10 MiB was stored for a valid bearer token
C29_Stored ==
    /\ req.op = "upload" /\ resp = "http_200"
    /\ objects = {[n |-> 1, size |-> 10 * 1024 * 1024, mime |-> "application/pdf"]}

\* what a rejected ChatUseCase.SendMessage leaves: an error, no row stored,
\* and no repository call made, neither the membership check nor the user
\* lookup
RejectedUnseen ==
    /\ resp' \notin {"ok", "none"} /\ store' = store /\ calls' = <<>>

\* C30 as stated: ChatUseCase.SendMessage rejects the request, stores nothing
\* and asks neither for membership nor for the user when the room id is not
\* positive, the type is not text, image or file, the content of a text
\* message is empty, file_url or file_name of an image or file message is
\* empty, or the content is longer than 4000
C30_InvalidRejected ==
    [][\A uo \in BOOLEAN, so \in BOOLEAN :
          (/\ UcSendMessage(req, uo, so)
           /\ \/ req.room <= 0
              \/ req.type \notin {"text", "image", "file"}
              \/ req.type = "text" /\ req.content = 0
              \/ req.type \in {"image", "file"} /\ (~req.url \/ ~req.name)
              \/ req.content > 4000)
          => RejectedUnseen]_vars

\* C30, amended: as stated, except that a request without type is handled
\* as a text message: it is rejected for the type only when the type is given
\* and is not text, image or file, and a request without type is rejected
\* when its content is empty
C30_InvalidOrDefaulted ==
    [][\A uo \in BOOLEAN, so \in BOOLEAN :
          (/\ UcSendMessage(req, uo, so)
           /\ \/ req.room <= 0
              \/ req.type \notin {"", "text", "image", "file"}
              \/ req.type \in {"", "text"} /\ req.content = 0
              \/ req.type \in {"image", "file"} /\ (~req.url \/ ~req.name)
              \/ req.content > 4000)
          => RejectedUnseen]_vars

\* a text message of 4001 characters from a member of its room was rejected
\* before any repository call
C30_TooLongRejected ==
    /\ req.op = "send" /\ req.type = "text" /\ req.content = 4001
    /\ IsUserInRoom(req.room, req.user)
    /\ resp = "err_too_long" /\ store = <<>> /\ calls = <<>>

\* --------------------------------------------------------------- use cases
MaxCalls == 3   \* number of calls of the room, chat and user services in one behaviour

\* the room directory: RoomIds are public rooms, room 3 is private, no other
\* room exists
PrivateRooms == {3}
RoomArgs == RoomIds \cup PrivateRooms \cup {4}

\* the identity the middleware put into the context (0: none), and the
\* user_id of a request (0: absent, 3: no such user)
Callers == {0} \cup Users
UserIds == {0} \cup Users \cup {3}

\* RoomRepo.GetRoomByID returns a room
RoomExists(r) == r \in RoomIds \cup PrivateRooms

\* Room.Type
RoomType(r) == IF r \in PrivateRooms THEN "private" ELSE "public"

\* UserRepo.GetUserByID returns a user
UserExists(u) == u \in Users

\* one more call of a service
Call ==
    /\ Alive
    /\ ops < MaxCalls
    /\ ops' = ops + 1

\* a JoinRoom that looks at the room's type before it looks at the membership
UcJoinRoomTypeFirst(u, r, insertOk) ==
    IF ~RoomExists(r) THEN "ErrRoomNotFound"
    ELSE IF RoomType(r) = "private" THEN "ErrCannotJoinPrivateRoom"
    ELSE IF IsUserInRoom(r, u) THEN "ErrUserAlreadyInRoom"
    ELSE IF ~UserExists(u) THEN "ErrUserNotFound"
    ELSE IF ~insertOk THEN "err_repo"
    ELSE "ok"

\* RoomUseCase.JoinRoom: "ok" or the error; insertOk: RoomRepo.JoinRoom
\* returns nil
UcJoinRoom(u, r, insertOk) ==
    IF ~RoomExists(r) THEN "ErrRoomNotFound"
    ELSE IF IsUserInRoom(r, u) THEN "ErrUserAlreadyInRoom"
    ELSE IF RoomType(r) = "private" THEN "ErrCannotJoinPrivateRoom"
    ELSE IF ~UserExists(u) THEN "ErrUserNotFound"
    ELSE IF ~insertOk THEN "err_repo"
    ELSE "ok"

\* RoomUseCase.LeaveRoom: "ok" or the error; deleteOk: RoomRepo.LeaveRoom
\* returns nil
UcLeaveRoom(u, r, deleteOk) ==
    IF ~IsUserInRoom(r, u) THEN "ErrUserNotInRoom"
    ELSE IF ~deleteOk THEN "err_repo"
    ELSE "ok"

\* RoomService.JoinRoom and LeaveRoom: userID := req.UserId, and the identity
\* of the context only if that is 0
ActsFor(caller, uid) == IF uid # 0 THEN uid ELSE caller

\* RoomService.JoinRoom
SvcJoinRoom(caller, uid, r, insertOk) ==
    /\ Call
    /\ LET u == ActsFor(caller, uid)
           status == IF u <= 0 THEN "ErrUserNotFound"
                     ELSE UcJoinRoom(u, r, insertOk)
       IN  /\ resp' = status
           /\ members' = IF status = "ok" THEN members \cup {<<u, r>>}
                          ELSE members
    /\ req' = [op |-> "join", caller |-> caller, user |-> uid, room |-> r]
    /\ out' = {}
    /\ UNCHANGED <<connVars, queued, hubVars, taskVars, subVars, store,
                   dropped, crashed, histVars, wire, main, gauge, objects, calls,
                   reads, accounts>>

\* RoomService.LeaveRoom
SvcLeaveRoom(caller, uid, r, deleteOk) ==
    /\ Call
    /\ LET u == ActsFor(caller, uid)
           status == IF u <= 0 THEN "ErrUserNotFound"
                     ELSE UcLeaveRoom(u, r, deleteOk)
       IN  /\ resp' = status
           /\ members' = IF status = "ok" THEN members \ {<<u, r>>}
                          ELSE members
    /\ req' = [op |-> "leave", caller |-> caller, user |-> uid, room |-> r]
    /\ out' = {}
    /\ UNCHANGED <<connVars, queued, hubVars, taskVars, subVars, store,
                   dropped, crashed, histVars, wire, main, gauge, objects, calls,
                   reads, accounts>>

\* the ids a message is asked for by: those of the table and one more
MsgIds == 1 .. (MaxMsgs + 1)

\* ChatRepo.GetMessage returns a message
MessageExists(id) == id \in 1 .. Len(store)

\* the rows of the messages table with room_id r
RowsOf(r) == {store[i] : i \in {j \in 1 .. Len(store) : store[j].room = r}}

\* a GetMessage that does not ask for the membership
UcGetMessageOpen(u, id) ==
    IF ~MessageExists(id) THEN "ErrMessageNotFound" ELSE "ok"

\* ChatUseCase.GetMessage: "ok" or the error
UcGetMessage(u, id) ==
    IF ~MessageExists(id) THEN "ErrMessageNotFound"
    ELSE IF ~IsUserInRoom(store[id].room, u) THEN "ErrRoomAccessDenied"
    ELSE "ok"

\* ChatUseCase.GetMessage is called
GetMessage(u, id) ==
    /\ Call
    /\ resp' = UcGetMessage(u, id)
    /\ out' = IF UcGetMessage(u, id) = "ok" THEN {store[id]} ELSE {}
    /\ req' = [op |-> "get", user |-> u, id |-> id]
    /\ UNCHANGED <<connVars, queued, hubVars, taskVars, subVars, dataVars,
                   dropped, crashed, histVars, wire, main, gauge, objects, calls,
                   reads, accounts>>

\* ChatUseCase.ListMessages is called; listOk: ChatRepo.ListMessages returns nil
ListMessages(u, r, listOk) ==
    /\ Call
    /\ LET status == IF ~IsUserInRoom(r, u) THEN "ErrRoomAccessDenied"
                     ELSE IF ~listOk THEN "err_repo"
                     ELSE "ok"
       IN  /\ resp' = status
           /\ out' = IF status = "ok" THEN RowsOf(r) ELSE {}
    /\ req' = [op |-> "list", user |-> u, room |-> r]
    /\ UNCHANGED <<connVars, queued, hubVars, taskVars, subVars, dataVars,
                   dropped, crashed, histVars, wire, main, gauge, objects, calls,
                   reads, accounts>>

\* ChatUseCase.MarkMessageAsRead is called; markOk: the insert into
\* message_reads (ON CONFLICT DO NOTHING) returns nil
MarkMessageAsRead(u, id, markOk) ==
    /\ Call
    /\ LET status == IF UcGetMessage(u, id) # "ok" THEN UcGetMessage(u, id)
                     ELSE IF ~markOk THEN "err_repo"
                     ELSE "ok"
       IN  /\ resp' = status
           /\ reads' = IF status = "ok" THEN reads \cup {<<id, u>>} ELSE reads
    /\ out' = {}
    /\ req' = [op |-> "mark", user |-> u, id |-> id]
    /\ UNCHANGED <<connVars, queued, hubVars, taskVars, subVars, dataVars,
                   dropped, crashed, histVars, wire, main, gauge, objects, calls,
                   accounts>>

\* ChatUseCase.GetUnreadMessages is called; countOk: MessageRepo.GetUnreadCount
\* returns nil.  ChatRepoAdapter.GetUnreadMessages returns an empty slice
GetUnreadMessages(u, r, countOk) ==
    /\ Call
    /\ resp' = IF ~IsUserInRoom(r, u) THEN "ErrRoomAccessDenied"
               ELSE IF ~countOk THEN "err_repo"
               ELSE "ok"
    /\ out' = {}
    /\ req' = [op |-> "unread", user |-> u, room |-> r]
    /\ UNCHANGED <<connVars, queued, hubVars, taskVars, subVars, dataVars,
                   dropped, crashed, histVars, wire, main, gauge, objects, calls,
                   reads, accounts>>

\* the file fields of a frame, request, message or row: file_url, file_name,
\* file_size, mime_type; NoFile holds their zero values
NoFile == [url |-> "", name |-> "", size |-> 0, mime |-> ""]
Attachments ==
    {NoFile,
     [url |-> "u", name |-> "n", size |-> 7, mime |-> "image/png"],
     [url |-> "u", name |-> "", size |-> 7, mime |-> "image/png"]}

\* the send_message frames that are tried: content is the length of the content
WsFrames == [type : {"", "text", "image", "file"}, content : {0, 1},
             att : Attachments]

\* Client.sendMessage: msgType
MsgType(f) == IF f.type = "" THEN "text" ELSE f.type

\* Client.sendMessage: its own checks let the frame through
WsValid(f) ==
    /\ ~(MsgType(f) = "text" /\ f.content = 0)
    /\ ~(MsgType(f) \in {"image", "file"} /\ f.att.url = "")

\* Client.sendMessage: the SendMessageRequest of a connection in room r
WsRequest(r, f) ==
    [room |-> r, type |-> MsgType(f), content |-> f.content, att |-> f.att]

\* that request as validateSendMessageRequest looks at it
AsRequest(u, q) ==
    [op |-> "send", user |-> u, room |-> q.room, type |-> q.type,
     content |-> q.content, url |-> q.att.url # "", name |-> q.att.name # ""]

\* ChatUseCase.SendMessage: the Message it hands to the repository
BizMessage(u, q) == [room |-> q.room, user |-> u, type |-> q.type, att |-> q.att]

\* ChatRepoAdapter.SendMessage: the chatV1.Message it hands to the data layer
DataMessage(m) == [room |-> m.room, user |-> m.user, type |-> m.type, att |-> NoFile]

\* messageRepo.CreateMessage: the row it inserts
Row(dm, id) ==
    [id |-> id, room |-> dm.room, user |-> dm.user, type |-> dm.type, att |-> dm.att]

\* the chatV1.Message that ChatService.SendMessage returns for a row
ProtoMessage(row) ==
    [id |-> row.id, room |-> row.room, user |-> row.user, type |-> row.type,
     att |-> NoFile]

\* Client.sendMessage: the RedisMessage built from the returned message
RedisPayload(msg) ==
    [id |-> msg.id, room |-> msg.room, user |-> msg.user, type |-> msg.type,
     att |-> msg.att]

\* subscribeToRedis: the new_message frame built from a payload
NewMessageFrame(e) ==
    IF e.att.url # ""
    THEN [id |-> e.id, room |-> e.room, user |-> e.user, type |-> e.type,
          att |-> e.att]
    ELSE [id |-> e.id, room |-> e.room, user |-> e.user, type |-> "",
          att |-> NoFile]

\* a send_message frame f of a connection of user u in room r passes through
\* Client.sendMessage, ChatService.SendMessage, ChatUseCase.SendMessage,
\* ChatRepoAdapter.SendMessage and messageRepo.CreateMessage, is published,
\* and subscribeToRedis builds the frame for the room's members
WsSendMessage(u, r, f, storeOk, pubOk) ==
    /\ Call
    /\ LET q == WsRequest(r, f)
           v == ValidateSendMessageRequest(AsRequest(u, q))
           status == IF ~WsValid(f) THEN "err_ws"
                     ELSE IF v # "ok" THEN v
                     ELSE IF ~IsUserInRoom(r, u) THEN "err_cannot_send"
                     ELSE IF StoreFails(storeOk) THEN "err_store"
                     ELSE IF ~pubOk THEN "err_publish"
                     ELSE "ok"
           row == Row(DataMessage(BizMessage(u, q)), Len(store) + 1)
       IN  /\ resp' = status
           /\ store' = IF status \in {"ok", "err_publish"}
                        THEN Append(store, row) ELSE store
           /\ out' = IF status = "ok"
                      THEN {NewMessageFrame(RedisPayload(ProtoMessage(row)))}
                      ELSE {}
    /\ req' = [op |-> "ws_send", user |-> u, room |-> r, frame |-> f]
    /\ UNCHANGED <<connVars, queued, hubVars, taskVars, subVars, members,
                   dropped, crashed, histVars, wire, main, gauge, objects, calls,
                   reads, accounts>>

\* the RegisterRequests that are tried: "" is an email or a username that
\* validateRegisterRequest refuses; pwOk: the password has 6 characters or more
Emails == {"", "a@x", "b@x"}
Names  == {"", "ann", "bob"}

\* UserRepoAdapter.GetUserByEmail returns a user
GetUserByEmail(e) == \E a \in accounts : a.email = e

\* UserRepoAdapter.GetUserByUsername returns a user: it returns
\* ErrUserNotFound for every username
GetUserByUsername(n) == FALSE

\* the INSERT of userRepo.CreateUser violates a UNIQUE constraint of users
Duplicate(e, n) == \E a \in accounts : a.email = e \/ a.username = n

\* UserUseCase.Register; createOk: the INSERT fails for no other reason
Register(e, n, pwOk, createOk) ==
    /\ Call
    /\ LET status == IF n = "" THEN "err_username"
                     ELSE IF e = "" THEN "err_email"
                     ELSE IF ~pwOk THEN "err_password"
                     ELSE IF GetUserByEmail(e) THEN "ErrUserAlreadyExists"
                     ELSE IF GetUserByUsername(n) THEN "ErrUserAlreadyExists"
                     ELSE IF Duplicate(e, n) \/ ~createOk THEN "err_create"
                     ELSE "ok"
       IN  /\ resp' = status
           /\ accounts' = IF status = "ok"
                           THEN accounts \cup {[email |-> e, username |-> n]}
                           ELSE accounts
    /\ req' = [op |-> "register", email |-> e, username |-> n, pwOk |-> pwOk]
    /\ out' = {}
    /\ UNCHANGED <<connVars, queued, hubVars, taskVars, subVars, dataVars,
                   dropped, crashed, histVars, wire, main, gauge, objects, calls,
                   reads>>

\* no connection is open; user 1 may have created the private room 3, which
\* made it a member
BizInit ==
    /\ Boot([c \in Clients |-> "new"])
    /\ members \in {Seeded, Seeded \cup {<<1, 3>>}}
    /\ req = NoReq

BizNext ==
    \/ \E caller \in Callers, uid \in UserIds, r \in RoomArgs, ok \in BOOLEAN :
           SvcJoinRoom(caller, uid, r, ok)
    \/ \E caller \in Callers, uid \in UserIds, r \in RoomArgs, ok \in BOOLEAN :
           SvcLeaveRoom(caller, uid, r, ok)
    \/ \E u \in Users, id \in MsgIds : GetMessage(u, id)
    \/ \E u \in Users, r \in RoomArgs, ok \in BOOLEAN : ListMessages(u, r, ok)
    \/ \E u \in Users, id \in MsgIds, ok \in BOOLEAN : MarkMessageAsRead(u, id, ok)
    \/ \E u \in Users, r \in RoomArgs, ok \in BOOLEAN : GetUnreadMessages(u, r, ok)
    \/ \E u \in Users, r \in RoomIds, f \in WsFrames, so \in BOOLEAN, po \in BOOLEAN :
           WsSendMessage(u, r, f, so, po)
    \/ \E e \in Emails, n \in Names, pw \in BOOLEAN, ok \in BOOLEAN :
           Register(e, n, pw, ok)

BizSpec == BizInit /\ [][BizNext]_vars

\* a call of the service has just been answered: the step made request q
Answered(op) == ops' # ops /\ req'.op = op

ReadByOutsider ==
    \/ /\ ops' # ops
       /\ req'.op \in {"get", "mark"}
       /\ MessageExists(req'.id)
       /\ ~IsUserInRoom(store[req'.id].room, req'.user)
    \/ /\ ops' # ops
       /\ req'.op \in {"list", "unread"}
       /\ ~IsUserInRoom(req'.room, req'.user)

RegisterOfTaken ==
    /\ req.op = "register"
    /\ req.email # "" /\ req.username # "" /\ req.pwOk
    /\ resp # "ok"
    /\ \E a \in accounts : a.email = req.email \/ a.username = req.username

\* C33: after any sequence of Register calls no two users share an email or a
\* username: a Register whose email or username is already taken returns
\* ErrUserAlreadyExists and creates no user
C33_TakenRefused ==
    /\ \A a, b \in accounts :
          (a.email = b.email \/ a.username = b.username) => a = b
    /\ RegisterOfTaken => resp = "ErrUserAlreadyExists"

\* C39: RoomService.JoinRoom and RoomService.LeaveRoom change only the
\* membership of the authenticated caller: a request whose user_id differs
\* from the caller's identity never adds or removes another user's membership
C39_OwnMembershipOnly ==
    [][(Answered("join") \/ Answered("leave")) =>
          \A p \in (members' \ members) \cup (members \ members') :
              p[1] = req'.caller]_vars

\* C38: for an accepted send_message of type image or file, the Message
\* stored and the new_message frame enqueued to the room's members carry the
\* same file_url, file_name, file_size and mime_type as the client's frame
C38_FileFieldsKept ==
    (req.op = "ws_send" /\ resp = "ok" /\ req.frame.type \in {"image", "file"}) =>
        /\ store[Len(store)].att = req.frame.att
        /\ out # {}
        /\ \A x \in out : x.att = req.frame.att

\* C35: every connection contained in some set of Hub.rooms has an open
\* Send: no connection is inserted into or left in rooms after its Send was
\* closed
C35_MembersOpen ==
    \A r \in DOMAIN rooms : \A c \in rooms[r] : ~SendClosed[c]

\* C36: Hub.rooms never has a key less than or equal to 0: a connection is
\* registered only under a room id for which its join_room succeeded, for
\* every interleaving of a join_room directly followed by leave_room with the
\* Hub event loop
C36_RoomKeysPositive == \A r \in DOMAIN rooms : r > 0

\* C34: when the Hub processes a register or unregister signal for a
\* connection, it acts on the room the connection was in when the reader
\* enqueued the signal, even if the reader has changed RoomID in between: an
\* unregister enqueued while c was in R removes c from rooms[R], a register
\* enqueued while c was in R inserts c into rooms[R]
C34_RoomOfTheSignal ==
    [][/\ (unregister # <<>> /\ unregister' = Tail(unregister)) =>
             LET c == Head(unregister)
                 R == Head(sigRoom.unreg)
             IN  R \in DOMAIN rooms' => c \notin rooms'[R]
       /\ (hpc = "reg_insert" /\ hpc' = "reg_notify") =>
             /\ sigRoom.cur \in DOMAIN rooms'
             /\ hcl \in rooms'[sigRoom.cur]]_vars

RECURSIVE EntriesIn(_)
\* the number of entries of the maps stored under the keys K of Hub.rooms
EntriesIn(K) ==
    IF K = {} THEN 0
    ELSE LET r == CHOOSE k \in K : TRUE
         IN  Cardinality(rooms[r]) + EntriesIn(K \ {r})

\* C37: whenever the Hub event loop is idle with empty register and
\* unregister channels, the websocket_connections gauge equals the total
\* number of entries over all sets of Hub.rooms
C37_GaugeCountsEntries ==
    (HubIdle /\ crashed = "no") => gauge = EntriesIn(DOMAIN rooms)

\* a reader is in c.Hub.register <- c and the channel is full
BlockedOnRegister(c) == rpc[c] = "join_reg" /\ Len(register) >= ChanCap

\* a reader is in c.Hub.unregister <- c of its deferred function and the
\* channel is full
BlockedOnUnregister(c) ==
    /\ rpc[c] = "idle" /\ ~connOpen[c]
    /\ ID[c] # 0 /\ RoomID[c] # 0
    /\ Len(unregister) >= ChanCap

Blocked(c) == BlockedOnRegister(c) \/ BlockedOnUnregister(c)

\* ------------------------------------------------------------ full channels
\* the client that only listens
Listener == CHOOSE c \in Clients : c \notin Talkers

\* the listener, registered in room 1, has sent join_room(1) as often as a
\* channel has slots and Hub.Run has not yet taken any of its signals; the
\* environment has one input left
JamInit ==
    /\ \E st \in Stages : st[Listener] = "joined" /\ Started(st)
    /\ ops = MaxOps - 1
    /\ register = [i \in 1 .. ChanCap |-> Listener]
    /\ unregister = [i \in 1 .. ChanCap |-> Listener]
    /\ sigRoom = [reg |-> [i \in 1 .. ChanCap |-> 1],
                  unreg |-> [i \in 1 .. ChanCap |-> 1], cur |-> 0]
    /\ members = Seeded
    /\ req = NoReq

\* a step of the goroutine Hub.Run
HubRun ==
    \/ HubRecvRegister \/ HubRegInsert \/ HubRegNotify
    \/ HubRecvUnregister \/ HubUnregDelete \/ HubUnregNotify

\* the goroutines while no peer reads from its socket: a writer never gets a
\* frame written, the queues of the connections only fill
LoopNext ==
    \/ \E c \in Clients, t \in Tokens : ReadAuth(c, t)
    \/ \E c \in Clients, r \in JoinIds : ReadJoin(c, r)
    \/ \E c \in Clients, k \in Contents, so \in BOOLEAN, po \in BOOLEAN :
           ReadSend(c, k, so, po)
    \/ \E c \in Clients : ReadLeave(c)
    \/ \E c \in Clients : ReadPing(c)
    \/ \E c \in Clients : JoinSet(c)
    \/ \E c \in Clients : JoinReg(c)
    \/ \E c \in Clients : LeaveSet(c)
    \/ \E c \in Clients : PeerClose(c)
    \/ \E c \in Clients : ReadError(c)
    \/ \E c \in Clients : WriterClosed(c)
    \/ \E c \in Clients : WriterPingFail(c)
    \/ HubRun
    \/ HubMapFault
    \/ \E b \in DOMAIN bcast : BcastRun(b)
    \/ \E s \in DOMAIN sends : SendRun(s)
    \/ SubRecv
    \/ SubLoop
    \/ \E u \in Senders, r \in RoomIds : ExternalPublish(u, r)

\* the loop runs: the scheduler gives Hub.Run a step whenever it can take
\* one; the other goroutines may be held up
LoopSpec == JamInit /\ [][LoopNext]_vars /\ WF_vars(HubRun)

\* C40: the Hub loop never waits on a connection: while the process runs and
\* the loop has a case in progress or a signal to take it can take a step,
\* and every reader that is blocked on a full register or unregister channel
\* is eventually unblocked (or the process has ended)
C40_LoopNeverWaits ==
    /\ [](/\ Alive
          /\ hpc # "idle" \/ register # <<>> \/ unregister # <<>>
          => ENABLED HubRun)
    /\ \A c \in Clients : Blocked(c) ~> (~Blocked(c) \/ ~Alive)

\* one reader is blocked on the full register channel while another is
\* blocked on the full unregister channel
C40_ReadersBlocked ==
    \E c, d \in Clients : BlockedOnRegister(c) /\ BlockedOnUnregister(d)

====
